---- MODULE Spec2Model ----
(***************************************************************************)
(* Model of src/lexer.py: the RAT24F lexer.  A source text is a sequence   *)
(* of one-character strings; positions are 0-based as in the Python code.  *)
(* The driving loop of lexer() is a state machine over                     *)
(*   source_code, position, tokens, pc, raised,                            *)
(* the module-level tables keywords, operators, separators, the positions  *)
(* the loop has logged, and the caller, who may run the scan a second time *)
(* on the same text.                                                       *)
(***************************************************************************)
EXTENDS Integers, Sequences, FiniteSets, TLC

VARIABLES source_code, position, tokens, pc, raised,
          keywords, operators, separators, visited, run, first

\* the module-level lists of lines 12-16
tables == <<keywords, operators, separators>>

\* the caller of lexer: which call is running, and what the first call gave
caller == <<run, first>>

vars == <<source_code, position, tokens, pc, raised, tables, visited, caller>>

(* ---------------------------- bounds ----------------------------------- *)
\* longest source text drawn from the full alphabet
MaxLen == 3
\* longest source text drawn from the comment alphabet
MaxCommentLen == 6
\* cap on the token list (only a scan that appends without advancing hits it)
MaxTokens == 9

(* ---------------------------- alphabet --------------------------------- *)
Letters == {"i", "f", "I", "a"}
Digits == {"1"}
Spaces == {" "}
\* the characters source texts are drawn from
Chars == {"i", "f", "I", "1", ".", "_", " ", "[", "*", "]", "<", "=", "!", "-", "("}
CommentChars == {"a", "[", "*", "]"}

\* str.isalpha / str.isdigit / str.isalnum / str.isspace on one character
is_letter(c) == c \in Letters
is_digit(c) == c \in Digits
isalnum(c) == c \in Letters \cup Digits
isspace(c) == c \in Spaces

(* ---------------------------- tables ----------------------------------- *)
KeywordsAtStartup ==
  { <<"i","n","t","e","g","e","r">>, <<"i","f">>, <<"e","l","s","e">>,
    <<"f","i">>, <<"w","h","i","l","e">>, <<"r","e","t","u","r","n">>,
    <<"g","e","t">>, <<"p","u","t">> }

OperatorsAtStartup ==
  { <<"+">>, <<"-">>, <<"*">>, <<"/">>, <<"=">>, <<"<">>, <<">">>,
    <<"<","=">>, <<">","=">>, <<"=","=">>, <<"!","=">> }

SeparatorsAtStartup == {"(", ")", "{", "}", ",", ";"}

(* ---------------------------- strings ---------------------------------- *)
\* s[i] with a 0-based index
At(s, i) == s[i + 1]

Min(a, b) == IF a < b THEN a ELSE b

\* s[a:b] for 0 <= a, with Python's clamping at the end of the text
Slice(s, a, b) ==
  LET hi == Min(b, Len(s))
  IN  IF a >= hi THEN << >> ELSE [k \in 1..(hi - a) |-> s[a + k]]

\* s.find("*]", start): least index >= start where "*]" begins, else -1
RECURSIVE FindClose(_, _)
FindClose(s, start) ==
  IF start + 1 >= Len(s) THEN -1
  ELSE IF At(s, start) = "*" /\ At(s, start + 1) = "]" THEN start
  ELSE FindClose(s, start + 1)

\* a handle_comment that skips one character too many after the closing tag
handle_comment_past(s, p) ==
  LET end_pos == FindClose(s, p)
  IN  IF end_pos = -1 THEN -1 ELSE end_pos + 3

\* handle_comment: the new position, or -1 where the code raises ValueError
handle_comment(s, p) ==
  LET end_pos == FindClose(s, p)
  IN  IF end_pos = -1 THEN -1 ELSE end_pos + 2

\* a get_identifier that takes letters only
RECURSIVE get_identifier_letters(_, _)
get_identifier_letters(s, p) ==
  IF p < Len(s) /\ is_letter(At(s, p))
  THEN <<At(s, p)>> \o get_identifier_letters(s, p + 1)
  ELSE << >>

RECURSIVE get_identifier(_, _)
get_identifier(s, p) ==
  IF p < Len(s) /\ (isalnum(At(s, p)) \/ At(s, p) = "_")
  THEN <<At(s, p)>> \o get_identifier(s, p + 1)
  ELSE << >>

\* the while loops of get_number: the run of digits from p
RECURSIVE DigitRun(_, _)
DigitRun(s, p) ==
  IF p < Len(s) /\ is_digit(At(s, p))
  THEN <<At(s, p)>> \o DigitRun(s, p + 1)
  ELSE << >>

\* a get_number that takes the '.' only when a digit follows it
get_number_strict(s, p) ==
  LET int_part == DigitRun(s, p)
      q == p + Len(int_part)
  IN  IF q + 1 < Len(s) /\ At(s, q) = "." /\ is_digit(At(s, q + 1))
      THEN <<int_part \o <<".">> \o DigitRun(s, q + 1), TRUE>>
      ELSE <<int_part, FALSE>>

\* get_number: <<lexeme, is_real>>
get_number(s, p) ==
  LET int_part == DigitRun(s, p)
      q == p + Len(int_part)
  IN  IF q < Len(s) /\ At(s, q) = "."
      THEN <<int_part \o <<".">> \o DigitRun(s, q + 1), TRUE>>
      ELSE <<int_part, FALSE>>

\* a get_operator that tests the single character first
get_operator_single_first(s, p) ==
  IF <<At(s, p)>> \in operators THEN <<At(s, p)>>
  ELSE IF Slice(s, p, p + 2) \in operators THEN Slice(s, p, p + 2)
  ELSE << >>

\* a get_operator that takes a digit after '-' into the lexeme
get_operator_signed(s, p) ==
  IF Slice(s, p, p + 2) \in operators THEN Slice(s, p, p + 2)
  ELSE IF At(s, p) = "-" /\ p + 1 < Len(s) /\ is_digit(At(s, p + 1))
       THEN Slice(s, p, p + 2)
  ELSE IF <<At(s, p)>> \in operators THEN <<At(s, p)>>
  ELSE << >>

get_operator(s, p) ==
  IF Slice(s, p, p + 2) \in operators THEN Slice(s, p, p + 2)
  ELSE IF <<At(s, p)>> \in operators THEN <<At(s, p)>>
  ELSE << >>

\* any(char == op[0] for op in operators)
StartsOperator(c) == \E op \in operators : c = op[1]

(* ---------------------------- state machine ---------------------------- *)
Strings(alphabet, n) == UNION {[1..k -> alphabet] : k \in 0..n}

Sources == Strings(Chars, MaxLen) \cup Strings(CommentChars, MaxCommentLen)

Init ==
  /\ source_code \in Sources
  /\ position = 0
  /\ tokens = << >>
  /\ pc = "test"
  /\ raised = "none"
  /\ keywords = KeywordsAtStartup
  /\ operators = OperatorsAtStartup
  /\ separators = SeparatorsAtStartup
  /\ visited = {}
  /\ run = "first"
  /\ first = << >>

char == At(source_code, position)

\* while position < len(source_code): enter the body, which logs the position
LoopTest ==
  /\ pc = "test"
  /\ position < Len(source_code)
  /\ pc' = "body"
  /\ visited' = visited \cup {position}
  /\ UNCHANGED <<source_code, position, tokens, raised, tables, caller>>

\* the loop condition fails: return tokens
Return ==
  /\ pc = "test"
  /\ ~(position < Len(source_code))
  /\ pc' = "done"
  /\ UNCHANGED <<source_code, position, tokens, raised, tables, visited, caller>>

SkipWhitespace ==
  /\ pc = "body"
  /\ isspace(char)
  /\ position' = position + 1
  /\ pc' = "test"
  /\ UNCHANGED <<source_code, tokens, raised, tables, visited, caller>>

\* char == '[' and source_code[position+1]: the index is past the end
CommentIndexError ==
  /\ pc = "body"
  /\ ~isspace(char)
  /\ char = "["
  /\ ~(position + 1 < Len(source_code))
  /\ pc' = "error"
  /\ raised' = "IndexError"
  /\ UNCHANGED <<source_code, position, tokens, tables, visited, caller>>

AtOpener ==
  /\ char = "["
  /\ position + 1 < Len(source_code)
  /\ At(source_code, position + 1) = "*"

CommentUnterminated ==
  /\ pc = "body"
  /\ ~isspace(char)
  /\ AtOpener
  /\ handle_comment(source_code, position) = -1
  /\ pc' = "error"
  /\ raised' = "ValueError"
  /\ UNCHANGED <<source_code, position, tokens, tables, visited, caller>>

CommentSkip ==
  /\ pc = "body"
  /\ ~isspace(char)
  /\ AtOpener
  /\ handle_comment(source_code, position) # -1
  /\ position' = handle_comment(source_code, position)
  /\ pc' = "test"
  /\ UNCHANGED <<source_code, tokens, raised, tables, visited, caller>>

\* no earlier branch of the loop body took the character
PastComment ==
  /\ ~isspace(char)
  /\ ~(char = "[" /\ position + 1 < Len(source_code)
                  /\ At(source_code, position + 1) = "*")
  /\ ~(char = "[" /\ ~(position + 1 < Len(source_code)))

IdentifierStep ==
  /\ pc = "body"
  /\ PastComment
  /\ is_letter(char)
  /\ LET lexeme == get_identifier(source_code, position)
     IN  /\ tokens' = Append(tokens,
              <<IF lexeme \in keywords THEN "keyword" ELSE "identifier", lexeme>>)
         /\ position' = position + Len(lexeme)
  /\ pc' = "test"
  /\ UNCHANGED <<source_code, raised, tables, visited, caller>>

NumberStep ==
  /\ pc = "body"
  /\ PastComment
  /\ ~is_letter(char)
  /\ is_digit(char)
  /\ LET r == get_number(source_code, position)
     IN  /\ tokens' = Append(tokens, <<IF r[2] THEN "real" ELSE "integer", r[1]>>)
         /\ position' = position + Len(r[1])
  /\ pc' = "test"
  /\ UNCHANGED <<source_code, raised, tables, visited, caller>>

OperatorStep ==
  /\ pc = "body"
  /\ PastComment
  /\ ~is_letter(char)
  /\ ~is_digit(char)
  /\ StartsOperator(char)
  /\ Len(tokens) < MaxTokens
  /\ LET lexeme == get_operator(source_code, position)
     IN  /\ tokens' = Append(tokens, <<"operator", lexeme>>)
         /\ position' = position + Len(lexeme)
  /\ pc' = "test"
  /\ UNCHANGED <<source_code, raised, tables, visited, caller>>

\* a separator branch that advances without appending the token
SeparatorStep_no_token ==
  /\ pc = "body"
  /\ PastComment
  /\ ~is_letter(char)
  /\ ~is_digit(char)
  /\ ~StartsOperator(char)
  /\ char \in separators
  /\ position' = position + 1
  /\ pc' = "test"
  /\ UNCHANGED <<source_code, tokens, raised, tables, visited, caller>>

SeparatorStep ==
  /\ pc = "body"
  /\ PastComment
  /\ ~is_letter(char)
  /\ ~is_digit(char)
  /\ ~StartsOperator(char)
  /\ char \in separators
  /\ tokens' = Append(tokens, <<"separator", <<char>>>>)
  /\ position' = position + 1
  /\ pc' = "test"
  /\ UNCHANGED <<source_code, raised, tables, visited, caller>>

\* no branch matches: the body falls through to the loop test, nothing changed
NoMatch ==
  /\ pc = "body"
  /\ PastComment
  /\ ~is_letter(char)
  /\ ~is_digit(char)
  /\ ~StartsOperator(char)
  /\ char \notin separators
  /\ pc' = "test"
  /\ UNCHANGED <<source_code, position, tokens, raised, tables, visited, caller>>

\* a second call that finds the token list of the first call still in place
Rerun_shared_tokens ==
  /\ pc \in {"done", "error"}
  /\ run = "first"
  /\ run' = "second"
  /\ first' = <<pc, tokens, raised, visited>>
  /\ position' = 0
  /\ pc' = "test"
  /\ raised' = "none"
  /\ visited' = {}
  /\ UNCHANGED <<source_code, tokens, tables>>

\* the caller, having the outcome of lexer(source_code), calls it again on
\* the same text: position = 0, tokens = []
Rerun ==
  /\ pc \in {"done", "error"}
  /\ run = "first"
  /\ run' = "second"
  /\ first' = <<pc, tokens, raised, visited>>
  /\ position' = 0
  /\ tokens' = << >>
  /\ pc' = "test"
  /\ raised' = "none"
  /\ visited' = {}
  /\ UNCHANGED <<source_code, tables>>

Next ==
  \/ LoopTest
  \/ Return
  \/ SkipWhitespace
  \/ CommentIndexError
  \/ CommentUnterminated
  \/ CommentSkip
  \/ IdentifierStep
  \/ NumberStep
  \/ OperatorStep
  \/ SeparatorStep
  \/ NoMatch
  \/ Rerun

Spec == Init /\ [][Next]_vars

\* the interpreter runs the loop as long as it can take a step
FairSpec == Spec /\ WF_vars(Next)

(* ---------------------------- properties ------------------------------- *)
\* the lexemes of a token list, concatenated in list order
RECURSIVE Concat(_)
Concat(toks) ==
  IF toks = << >> THEN << >> ELSE Head(toks)[2] \o Concat(Tail(toks))

IsWhitespace(c) == isspace(c)
StripWhitespace(s) == SelectSeq(s, LAMBDA c : ~IsWhitespace(c))

\* "*]" begins at some index >= from
HasCloseFrom(s, from) ==
  \E i \in from..(Len(s) - 2) : At(s, i) = "*" /\ At(s, i + 1) = "]"

\* the index where the first "*]" at or after from begins
FirstCloseFrom(s, from) ==
  CHOOSE i \in from..(Len(s) - 2) :
    /\ At(s, i) = "*" /\ At(s, i + 1) = "]"
    /\ \A j \in from..(i - 1) : ~(At(s, j) = "*" /\ At(s, j + 1) = "]")

\* neither "[*" nor "*]" occurs in s
NoCommentMarkers(s) ==
  \A i \in 0..(Len(s) - 2) :
    /\ ~(At(s, i) = "[" /\ At(s, i + 1) = "*")
    /\ ~(At(s, i) = "*" /\ At(s, i + 1) = "]")

\* the length of the longest run from p of characters of the class
RunLength(s, p, class) ==
  CHOOSE n \in 0..(Len(s) - p) :
    /\ \A k \in 0..(n - 1) : At(s, p + k) \in class
    /\ (p + n = Len(s) \/ At(s, p + n) \notin class)

IdentChars == Letters \cup Digits \cup {"_"}

TwoCharOperators == { <<"<","=">>, <<">","=">>, <<"=","=">>, <<"!","=">> }

\* C1: every scan terminates: it eventually returns the token list or raises.
Terminates == <>(pc \in {"done", "error"})

\* C2: every token of the accumulated list has a lexeme of length >= 1.
AllLexemesNonEmpty ==
  \A k \in 1..Len(tokens) : Len(tokens[k][2]) >= 1

\* C3: the only error a scan raises is the unterminated-comment error, and it
\* is raised only at a "[*" with no "*]" after it.
OnlyUnterminatedCommentError ==
  pc = "error" =>
    /\ raised = "ValueError"
    /\ AtOpener
    /\ ~HasCloseFrom(source_code, position + 2)

\* C4: at a "[*" with no "*]" after the opening marker, the step raises the
\* unterminated-comment error and the scan stops there.
UnterminatedCommentHalts ==
  [][(pc = "body" /\ AtOpener /\ ~HasCloseFrom(source_code, position + 2))
       => (pc' = "error" /\ raised' = "ValueError" /\ tokens' = tokens)]_vars

\* C5: a returned scan of a text without comment markers yields tokens whose
\* lexemes, concatenated in order, are the text with its whitespace removed.
ReconstructsSource ==
  (pc = "done" /\ NoCommentMarkers(source_code))
    => Concat(tokens) = StripWhitespace(source_code)

WitnessReconstructsSource ==
  /\ pc = "done"
  /\ NoCommentMarkers(source_code)
  /\ Len(tokens) >= 2
  /\ \E i \in 1..Len(source_code) : IsWhitespace(source_code[i])
  /\ \E i \in 1..Len(source_code) : source_code[i] \in separators

\* C6: at a letter the step appends one token whose lexeme is the maximal run
\* of alphanumeric-or-underscore characters, tagged keyword exactly when the
\* lexeme is in keywords, and advances by its length; no token is an
\* identifier whose lexeme is a keyword.
NoKeywordTaggedIdentifier ==
  \A k \in 1..Len(tokens) :
    tokens[k][1] = "identifier" => tokens[k][2] \notin keywords

OperatorLongestMatch ==
  [][(pc = "body" /\ position + 1 < Len(source_code)
        /\ Slice(source_code, position, position + 2) \in TwoCharOperators)
       => /\ tokens' = Append(tokens,
                <<"operator", Slice(source_code, position, position + 2)>>)
          /\ position' = position + 2]_vars

WitnessOperatorLongestMatch ==
  /\ pc = "test"
  /\ Len(tokens) = 1
  /\ tokens[1] = <<"operator", <<"<", "=">>>>
  /\ position = 2
  /\ Len(source_code) = 3

\* C8: at a digit the step appends one token whose lexeme is the maximal run
\* of digits, extended by '.' and the digits after it exactly when '.' follows
\* the first run; it is real iff the '.' was taken; the position advances by
\* the lexeme's length.
NumberRule ==
  [][(pc = "body" /\ is_digit(char)) =>
       LET n1 == RunLength(source_code, position, Digits)
           dot == /\ position + n1 < Len(source_code)
                  /\ At(source_code, position + n1) = "."
           n == IF dot
                THEN n1 + 1 + RunLength(source_code, position + n1 + 1, Digits)
                ELSE n1
       IN  /\ tokens' = Append(tokens,
                 <<IF dot THEN "real" ELSE "integer",
                   Slice(source_code, position, position + n)>>)
           /\ position' = position + n]_vars

\* a real whose '.' has no digit after it, followed by more text
WitnessNumberRule ==
  /\ Len(tokens) = 1
  /\ tokens[1] = <<"real", <<"1", ".">>>>
  /\ position = 2
  /\ Len(source_code) = 3

NumericLexemesUnsigned ==
  \A k \in 1..Len(tokens) :
    tokens[k][1] \in {"integer", "real"} =>
      /\ \A i \in 1..Len(tokens[k][2]) : tokens[k][2][i] \in Digits \cup {"."}
      /\ Cardinality({i \in 1..Len(tokens[k][2]) : tokens[k][2][i] = "."}) <= 1

MinusIsOperator ==
  /\ [][(pc = "body" /\ char = "-")
          => /\ tokens' = Append(tokens, <<"operator", <<"-">>>>)
             /\ position' = position + 1]_vars
  /\ []NumericLexemesUnsigned

\* '-' directly before a digit: an operator token, then an integer token
WitnessMinusIsOperator ==
  /\ Len(tokens) = 2
  /\ tokens[1] = <<"operator", <<"-">>>>
  /\ tokens[2] = <<"integer", <<"1">>>>
  /\ position = 2

\* the character at the position belongs to no recognized class
Unrecognized ==
  /\ ~isspace(char)
  /\ ~AtOpener
  /\ ~is_letter(char)
  /\ ~is_digit(char)
  /\ ~(\E op \in operators : op[1] = char)
  /\ char \notin separators

\* C12: at a character of no recognized class the step either raises an error
\* or advances the position by exactly one with no token appended.
UnrecognizedCharAdvances ==
  [][(pc = "body" /\ Unrecognized)
       => \/ pc' = "error"
          \/ (position' = position + 1 /\ tokens' = tokens)]_vars

\* the character at the position starts an operators entry and the two
\* characters there are no operators entry
SingleOperatorCase ==
  /\ \E op \in operators : op[1] = char
  /\ ~(/\ position + 1 < Len(source_code)
       /\ Slice(source_code, position, position + 2) \in operators)

\* C13: where the character starts an operators entry and the two-character
\* substring is no entry, the step appends the operator token whose lexeme is
\* that single character and advances by one.
SingleCharOperator ==
  [][(pc = "body" /\ SingleOperatorCase)
       => /\ tokens' = Append(tokens, <<"operator", <<char>>>>)
          /\ position' = position + 1]_vars

\* C14: the search for "*]" starts after the two characters of "[*": the step
\* at an opening marker skips to just after the first "*]" that begins at or
\* after position + 2, and raises the unterminated-comment error when there
\* is none.
CloseSearchStartsAfterOpener ==
  [][(pc = "body" /\ AtOpener)
       => IF HasCloseFrom(source_code, position + 2)
          THEN /\ pc' = "test"
               /\ position' = FirstCloseFrom(source_code, position + 2) + 2
          ELSE /\ pc' = "error"
               /\ raised' = "ValueError"]_vars

IsPrefix(a, b) ==
  /\ Len(a) <= Len(b)
  /\ \A i \in 1..Len(a) : a[i] = b[i]

\* the second run follows the first: the positions it has logged and the
\* tokens it has appended are those of the first run, and it ends as the
\* first run ended
SecondRunAgrees ==
  run = "second" =>
    /\ visited \subseteq first[4]
    /\ IsPrefix(tokens, first[2])
    /\ (pc \in {"done", "error"} => <<pc, tokens, raised, visited>> = first)

PositionInRange == position \in 0..Len(source_code)

\* C15: the position stays within 0..len(source_code), no step of a scan
\* decreases it, and the loop stops exactly when it equals len(source_code).
PositionRule ==
  /\ []PositionInRange
  /\ [][pc = "body" => position' >= position]_vars
  /\ [][pc = "test" =>
          /\ position' = position
          /\ (pc' = "done" <=> position = Len(source_code))]_vars

\* a returned scan that skipped a comment and appended a token
WitnessPositionRule ==
  /\ pc = "done"
  /\ position = Len(source_code)
  /\ Len(tokens) >= 1
  /\ \E i \in 0..(Len(source_code) - 2) :
       At(source_code, i) = "[" /\ At(source_code, i + 1) = "*"

====
